---- MODULE Spec2Model ----
(***************************************************************************)
(* WebSocketClient of src/lib/Socket/Client/websocket.js: a reconnecting   *)
(* transport client over an underlying WebSocket.  The model holds the     *)
(* object's fields, the underlying sockets it has constructed (each with   *)
(* the transport's own ready state), the timers it has armed and a clock.  *)
(* Every handler runs to completion: one action per public method, per     *)
(* underlying socket event and per timer callback.                         *)
(***************************************************************************)
EXTENDS Integers, Naturals, Sequences, FiniteSets, TLC

\* --------------------------------------------------------------- bounds
\* Number of underlying sockets one run may construct.
MaxSockets == 3
\* config.maxReconnectAttempts of the modelled run.
MaxReconnectAttempts == 2
\* config.maxQueueSize of the modelled run.
MaxQueueSize == 2

\* ------------------------------------------------------------ constants
reconnectDelay == 1000
maxReconnectDelay == 30000

CONNECTING == 0
OPEN == 1
CLOSING == 2
CLOSED == 3

\* null for a handle or a timer id
Null == 0
\* null for lastPongTime
NoTime == -1

\* Payloads handed to send(); the underlying send() rejects "x" synchronously
\* (a payload the transport cannot serialise).
Payloads == {"a", "x"}
Unsendable == {"x"}

SocketIds == 1..MaxSockets

VARIABLES
    cfg,                \* this.config (fixed at construction)
    socket,             \* this.socket: id of the handle, Null when absent
    readyState,         \* this._readyState
    reconnectAttempts,  \* this.reconnectAttempts
    reconnectTimer,     \* this.reconnectTimer: id of the recorded timer or Null
    shouldReconnect,    \* this.shouldReconnect
    messageQueue,       \* this.messageQueue (payloads; callbacks go with them)
    pingInterval,       \* this.pingInterval: id of the recorded interval or Null
    lastPongTime,       \* this.lastPongTime
    sock,               \* transport ready state of every constructed socket
    nsock,              \* number of sockets constructed so far
    connTimers,         \* sockets whose connect-timeout timer is still pending
    timers,             \* ids of the pending reconnect timers (setTimeout)
    intervals,          \* ids of the armed heartbeat intervals (setInterval)
    now,                \* Date.now(), counted from the last write of lastPongTime
    halted,             \* "no", "loop" (a handler never returns), "crash"
    events,             \* events emitted by the last handler, in order
    ops,                \* the last handler and the operations it performed
    wire,               \* calls of the underlying send() by the last handler
    cbs,                \* send callbacks invoked by the last handler
    ret,                \* return value of the last send() call
    explicitClosed,     \* close() acted and the caller has not called connect() since
    hbCount             \* 'heartbeat-timeout' emissions since the last liveness reset

vars == <<cfg, socket, readyState, reconnectAttempts, reconnectTimer,
          shouldReconnect, messageQueue, pingInterval, lastPongTime, sock,
          nsock, connTimers, timers, intervals, now, halted, events, ops,
          wire, cbs, ret, explicitClosed, hbCount>>

\* The mutable state a handler works on, as one record.
World ==
    [socket |-> socket, readyState |-> readyState,
     reconnectAttempts |-> reconnectAttempts, reconnectTimer |-> reconnectTimer,
     shouldReconnect |-> shouldReconnect, messageQueue |-> messageQueue,
     pingInterval |-> pingInterval, lastPongTime |-> lastPongTime,
     sock |-> sock, nsock |-> nsock, connTimers |-> connTimers,
     timers |-> timers, intervals |-> intervals, now |-> now,
     halted |-> halted,
     events |-> <<>>, ops |-> <<>>, wire |-> <<>>, cbs |-> <<>>, ret |-> "none",
     cbThrows |-> FALSE]

Ev(type, a, b) == [type |-> type, a |-> a, b |-> b]
Op(name, s, st) == [op |-> name, sock |-> s, state |-> st]

emit(w, type, a, b) == [w EXCEPT !.events = Append(@, Ev(type, a, b))]
note(w, name) == [w EXCEPT !.ops = Append(@, Op(name, w.socket, w.readyState))]

Min(a, b) == IF a <= b THEN a ELSE b
Pow2(n) == 2 ^ n

\* A timer id no pending timer carries.
FreshId(used) == CHOOSE i \in 1..(Cardinality(used) + 1) : i \notin used

\* The transport's close(): a socket not yet closed starts closing.
TransportClose(w, s) ==
    [w EXCEPT !.sock[s] = IF @ \in {"connecting", "open"} THEN "closing" ELSE @]

\* Date.now() - this.lastPongTime.  With lastPongTime null the difference is
\* Date.now() itself, beyond every timeout.
Elapsed(w) ==
    IF w.lastPongTime = NoTime THEN cfg.heartbeatTimeout + 1
    ELSE w.now - w.lastPongTime

\* The code reads the clock only in the difference Date.now() - lastPongTime,
\* so times are kept relative to the instant lastPongTime was written.
Rebase(w) ==
    IF w.lastPongTime = NoTime THEN [w EXCEPT !.now = 0]
    ELSE [w EXCEPT !.now = @ - w.lastPongTime, !.lastPongTime = 0]

\* ------------------------------------------------------ timers (150-207)
clearReconnectTimer(w) ==
    IF w.reconnectTimer # Null
    THEN [w EXCEPT !.timers = @ \ {w.reconnectTimer}, !.reconnectTimer = Null]
    ELSE w

\* this.pingTimeout is never assigned, so its branch never runs.
stopHeartbeat(w) ==
    IF w.pingInterval # Null
    THEN [w EXCEPT !.intervals = @ \ {w.pingInterval}, !.pingInterval = Null]
    ELSE w

startHeartbeat(w) ==
    IF cfg.heartbeatInterval = 0 THEN w
    ELSE LET w1 == stopHeartbeat(w)
             id == FreshId(w1.intervals)
         IN  note([w1 EXCEPT !.lastPongTime = w1.now,
                             !.intervals = @ \cup {id},
                             !.pingInterval = id], "startHeartbeat")

backoffDelay(attempts) == Min(reconnectDelay * Pow2(attempts), maxReconnectDelay)

\* scheduleReconnect() that computes the delay after the increment.
scheduleDelayAfterIncrement(w) ==
    LET w1 == clearReconnectTimer(w)
        w2 == [w1 EXCEPT !.reconnectAttempts = @ + 1]
        delay == backoffDelay(w2.reconnectAttempts)
        w3 == emit(w2, "reconnecting", w2.reconnectAttempts, delay)
        id == FreshId(w3.timers)
    IN  note([w3 EXCEPT !.timers = @ \cup {id}, !.reconnectTimer = id],
             "scheduleReconnect")

\* scheduleReconnect() that does not cancel the timer it recorded before.
scheduleWithoutClear(w) ==
    LET delay == backoffDelay(w.reconnectAttempts)
        w2 == [w EXCEPT !.reconnectAttempts = @ + 1]
        w3 == emit(w2, "reconnecting", w2.reconnectAttempts, delay)
        id == FreshId(w3.timers)
    IN  note([w3 EXCEPT !.timers = @ \cup {id}, !.reconnectTimer = id],
             "scheduleReconnect")

scheduleReconnect(w) ==
    LET w1 == clearReconnectTimer(w)
        delay == backoffDelay(w1.reconnectAttempts)
        w2 == [w1 EXCEPT !.reconnectAttempts = @ + 1]
        w3 == emit(w2, "reconnecting", w2.reconnectAttempts, delay)
        id == FreshId(w3.timers)
    IN  note([w3 EXCEPT !.timers = @ \cup {id}, !.reconnectTimer = id],
             "scheduleReconnect")

\* ------------------------------------------------------ connect (53-114)
connect(w) ==
    IF w.socket # Null THEN w
    ELSE LET id == w.nsock + 1
             w1 == [w EXCEPT !.shouldReconnect = TRUE,
                             !.readyState = CONNECTING,
                             !.socket = id,
                             !.nsock = id,
                             !.sock[id] = "connecting"]
             w2 == IF cfg.connectTimeoutMs # 0
                   THEN [w1 EXCEPT !.connTimers = @ \cup {id}]
                   ELSE w1
         IN  note(w2, "connect")

\* -------------------------------------------------------- close (116-128)
\* close() that forgets to clear the reconnection intent.
closeKeepsIntent(w) ==
    IF w.socket = Null THEN w
    ELSE LET w0 == note(w, "close")
             w2 == clearReconnectTimer(w0)
             w3 == stopHeartbeat(w2)
             w4 == [w3 EXCEPT !.readyState = CLOSING]
             w5 == TransportClose(w4, w4.socket)
         IN  [w5 EXCEPT !.socket = Null, !.readyState = CLOSED]

close(w) ==
    IF w.socket = Null THEN w
    ELSE LET w0 == note(w, "close")
             w1 == [w0 EXCEPT !.shouldReconnect = FALSE]
             w2 == clearReconnectTimer(w1)
             w3 == stopHeartbeat(w2)
             w4 == [w3 EXCEPT !.readyState = CLOSING]
             w5 == TransportClose(w4, w4.socket)
         IN  [w5 EXCEPT !.socket = Null, !.readyState = CLOSED]

\* --------------------------------------------------------- send (130-148)
\* The underlying send() throws on a socket that is still connecting and on
\* a payload it cannot serialise.  The callback is the caller's code and runs
\* inside the try block: when its call after a successful send throws
\* (cbThrows), the catch block calls it again with the error.
SendThrows(w, str) == w.sock[w.socket] = "connecting" \/ str \in Unsendable

\* send() whose queue bound is off by one (<= for <).
\* send() that queues without consulting config.queueMessages.
sendIgnoresFlag(w, str) ==
    IF w.socket = Null \/ w.readyState # OPEN
    THEN IF Len(w.messageQueue) < cfg.maxQueueSize
         THEN [w EXCEPT !.messageQueue = Append(@, str), !.ret = "true"]
         ELSE [w EXCEPT !.cbs = Append(@, <<str, "not open">>), !.ret = "false"]
    ELSE LET thrown == SendThrows(w, str)
             w1 == [w EXCEPT !.wire = Append(@, [sock |-> w.socket, data |-> str,
                                                 thrown |-> thrown])]
         IN  IF thrown
             THEN [w1 EXCEPT !.cbs = Append(@, <<str, "error">>), !.ret = "false"]
             ELSE IF w.cbThrows
                  THEN [w1 EXCEPT !.cbs = @ \o <<(<<str, "ok">>), (<<str, "error">>)>>,
                                  !.ret = "false"]
                  ELSE [w1 EXCEPT !.cbs = Append(@, <<str, "ok">>), !.ret = "true"]

sendOffByOne(w, str) ==
    IF w.socket = Null \/ w.readyState # OPEN
    THEN IF cfg.queueMessages /\ Len(w.messageQueue) <= cfg.maxQueueSize
         THEN [w EXCEPT !.messageQueue = Append(@, str), !.ret = "true"]
         ELSE [w EXCEPT !.cbs = Append(@, <<str, "not open">>), !.ret = "false"]
    ELSE LET thrown == SendThrows(w, str)
             w1 == [w EXCEPT !.wire = Append(@, [sock |-> w.socket, data |-> str,
                                                 thrown |-> thrown])]
         IN  IF thrown
             THEN [w1 EXCEPT !.cbs = Append(@, <<str, "error">>), !.ret = "false"]
             ELSE IF w.cbThrows
                  THEN [w1 EXCEPT !.cbs = @ \o <<(<<str, "ok">>), (<<str, "error">>)>>,
                                  !.ret = "false"]
                  ELSE [w1 EXCEPT !.cbs = Append(@, <<str, "ok">>), !.ret = "true"]

send(w, str) ==
    IF w.socket = Null \/ w.readyState # OPEN
    THEN IF cfg.queueMessages /\ Len(w.messageQueue) < cfg.maxQueueSize
         THEN [w EXCEPT !.messageQueue = Append(@, str), !.ret = "true"]
         ELSE [w EXCEPT !.cbs = Append(@, <<str, "not open">>), !.ret = "false"]
    ELSE LET thrown == SendThrows(w, str)
             w1 == [w EXCEPT !.wire = Append(@, [sock |-> w.socket, data |-> str,
                                                 thrown |-> thrown])]
         IN  IF thrown
             THEN [w1 EXCEPT !.cbs = Append(@, <<str, "error">>), !.ret = "false"]
             ELSE IF w.cbThrows
                  THEN [w1 EXCEPT !.cbs = @ \o <<(<<str, "ok">>), (<<str, "error">>)>>,
                                  !.ret = "false"]
                  ELSE [w1 EXCEPT !.cbs = Append(@, <<str, "ok">>), !.ret = "true"]

\* ------------------------------------------------ flushMessageQueue (173-178)
\* An iteration whose send() puts the entry back leaves the loop condition as
\* it was: the loop never ends and the handler never returns.
RECURSIVE flushMessageQueue(_)
flushMessageQueue(w) ==
    IF Len(w.messageQueue) > 0 /\ w.readyState = OPEN
    THEN LET data == Head(w.messageQueue)
             w1 == send([w EXCEPT !.messageQueue = Tail(@)], data)
         IN  IF Len(w1.messageQueue) >= Len(w.messageQueue)
             THEN [w1 EXCEPT !.halted = "loop"]
             ELSE flushMessageQueue(w1)
    ELSE w

\* --------------------------------------------- socket event handlers (70-98)
\* emit('open'): a listener is the caller's code; it reads the attempt
\* counter (recorded in the event) and may call close().
emitOpen(w, listenerCloses) ==
    LET w1 == note(emit(w, "open", w.reconnectAttempts, 0), "emit open")
    IN  IF listenerCloses THEN close(w1) ELSE w1

\* onopen that arms the heartbeat before it drains the queue.
onopenHeartbeatFirst(w, listenerCloses) ==
    LET w1 == [w EXCEPT !.readyState = OPEN, !.reconnectAttempts = 0]
        w2 == emitOpen(w1, listenerCloses)
        w3 == startHeartbeat(w2)
    IN  flushMessageQueue(note(w3, "flushMessageQueue"))

onopen(w, listenerCloses) ==
    LET w1 == [w EXCEPT !.readyState = OPEN, !.reconnectAttempts = 0]
        w2 == emitOpen(w1, listenerCloses)
        w3 == flushMessageQueue(note(w2, "flushMessageQueue"))
    IN  IF w3.halted # "no" THEN w3 ELSE startHeartbeat(w3)

\* The wrapper installed when connectTimeoutMs is set (108-112): it clears
\* the timer of the connect() call that installed it, then runs onopen.
onopenWrapped(w, i, listenerCloses) ==
    IF cfg.connectTimeoutMs # 0
    THEN onopen(note([w EXCEPT !.connTimers = @ \ {i}], "clearTimeout"),
                listenerCloses)
    ELSE onopen(w, listenerCloses)

onmessage(w) ==
    emit([w EXCEPT !.lastPongTime = w.now], "message", 0, 0)

onerror(w) == emit(w, "error", 0, 0)

\* onclose that reconnects while the counter is at most the maximum.
oncloseOneMore(w) ==
    LET w1 == stopHeartbeat([w EXCEPT !.readyState = CLOSED])
        w2 == emit(w1, "close", 0, 0)
        w3 == [w2 EXCEPT !.socket = Null]
    IN  IF w3.shouldReconnect /\ w3.reconnectAttempts <= cfg.maxReconnectAttempts
        THEN scheduleReconnect(w3)
        ELSE IF w3.reconnectAttempts >= cfg.maxReconnectAttempts
             THEN emit(w3, "reconnect-failed", w3.reconnectAttempts, 0)
             ELSE w3

onclose(w) ==
    LET w1 == stopHeartbeat([w EXCEPT !.readyState = CLOSED])
        w2 == emit(w1, "close", 0, 0)
        w3 == [w2 EXCEPT !.socket = Null]
    IN  IF w3.shouldReconnect /\ w3.reconnectAttempts < cfg.maxReconnectAttempts
        THEN scheduleReconnect(w3)
        ELSE IF w3.reconnectAttempts >= cfg.maxReconnectAttempts
             THEN emit(w3, "reconnect-failed", w3.reconnectAttempts, 0)
             ELSE w3

\* ------------------------------------------------------- timer callbacks
\* The connect-timeout callback (101-106).
\* A connect-timeout callback that does not look at the state.
connectTimeoutAnyState(w) == emit(close(w), "error", 1, 0)

connectTimeout(w) ==
    IF w.readyState = CONNECTING
    THEN emit(close(w), "error", 1, 0)
    ELSE w

\* The reconnect timer's callback (161-163).
reconnectFire(w) == connect(w)

\* The heartbeat interval's callback (186-195).  this.socket.close() on an
\* absent handle throws a TypeError out of the timer callback: the runtime
\* either reports it and goes on, or ends the process.
heartbeatTick(w, fatal) ==
    IF w.readyState = OPEN
    THEN IF Elapsed(w) > cfg.heartbeatTimeout
         THEN LET w1 == emit(w, "heartbeat-timeout", 0, 0)
              IN  IF w1.socket = Null
                  THEN [w1 EXCEPT !.halted = IF fatal THEN "crash" ELSE "no"]
                  ELSE TransportClose(note(w1, "socket.close"), w1.socket)
         ELSE w
    ELSE w

resetReconnectAttempts(w) == [w EXCEPT !.reconnectAttempts = 0]

\* ------------------------------------------------------------- the machine
Begin(name, i) == [World EXCEPT !.ops = <<Op(name, i, readyState)>>]

HasOp(seq, name) == \E k \in 1..Len(seq) : seq[k].op = name
HasEv(seq, type) == \E k \in 1..Len(seq) : seq[k].type = type
CountEv(seq, type) == Cardinality({k \in 1..Len(seq) : seq[k].type = type})

Trigger == IF ops = <<>> THEN Op("init", Null, CLOSED) ELSE ops[1]

\* The state after a handler that left the world w.
Commit(w) ==
    /\ socket' = w.socket
    /\ readyState' = w.readyState
    /\ reconnectAttempts' = w.reconnectAttempts
    /\ reconnectTimer' = w.reconnectTimer
    /\ shouldReconnect' = w.shouldReconnect
    /\ messageQueue' = w.messageQueue
    /\ pingInterval' = w.pingInterval
    /\ lastPongTime' = Rebase(w).lastPongTime
    /\ sock' = w.sock
    /\ nsock' = w.nsock
    /\ connTimers' = w.connTimers
    /\ timers' = w.timers
    /\ intervals' = w.intervals
    /\ now' = Rebase(w).now
    /\ halted' = w.halted
    /\ events' = w.events
    /\ ops' = w.ops
    /\ wire' = w.wire
    /\ cbs' = w.cbs
    /\ ret' = w.ret
    /\ explicitClosed' = IF w.ops[1].op = "Connect" THEN FALSE
                         ELSE explicitClosed \/ HasOp(w.ops, "close")
    /\ hbCount' = IF w.ops[1].op \in {"OnMessage", "OnClose"}
                     \/ HasOp(w.ops, "startHeartbeat")
                  THEN 0
                  ELSE Min(hbCount + CountEv(w.events, "heartbeat-timeout"), 2)
    /\ UNCHANGED cfg

Running == halted = "no"
\* connect() would construct a socket beyond the model's bound.
CanConnect == socket # Null \/ nsock < MaxSockets

\* The configurations of a run: queuing on or off, and the two optional
\* timers (connect timeout, heartbeat) both configured or both left out.  A
\* timer that is configured need not fire, so a run with only one of them
\* configured is a run of the configuration that has both.
Init ==
    /\ cfg \in {c \in [queueMessages : BOOLEAN,
                       connectTimeoutMs : {0, 1},
                       heartbeatInterval : {0, 1},
                       heartbeatTimeout : {1},
                       maxReconnectAttempts : {MaxReconnectAttempts},
                       maxQueueSize : {MaxQueueSize}] :
                  (c.connectTimeoutMs = 0) = (c.heartbeatInterval = 0)}
    /\ socket = Null
    /\ readyState = CLOSED
    /\ reconnectAttempts = 0
    /\ reconnectTimer = Null
    /\ shouldReconnect = FALSE
    /\ messageQueue = <<>>
    /\ pingInterval = Null
    /\ lastPongTime = NoTime
    /\ sock = [i \in SocketIds |-> "none"]
    /\ nsock = 0
    /\ connTimers = {}
    /\ timers = {}
    /\ intervals = {}
    /\ now = 0
    /\ halted = "no"
    /\ events = <<>>
    /\ ops = <<>>
    /\ wire = <<>>
    /\ cbs = <<>>
    /\ ret = "none"
    /\ explicitClosed = FALSE
    /\ hbCount = 0

\* Public methods, called by the owner of the client.
Connect == Running /\ CanConnect /\ Commit(connect(Begin("Connect", socket)))
Close == Running /\ Commit(close(Begin("Close", socket)))
Send ==
    /\ Running
    /\ \E p \in Payloads, c \in BOOLEAN :
        Commit(send([Begin("Send", socket) EXCEPT !.cbThrows = c], p))
ResetReconnectAttempts ==
    Running /\ Commit(resetReconnectAttempts(Begin("ResetReconnectAttempts", socket)))

\* Events of the underlying socket i, delivered in the order the transport
\* produces them: open only while connecting, message only while open, close
\* once, last.
OnOpen ==
    /\ Running
    /\ \E i \in SocketIds, listenerCloses \in BOOLEAN, c \in BOOLEAN :
        /\ sock[i] = "connecting"
        /\ Commit(onopenWrapped([Begin("OnOpen", i) EXCEPT !.sock[i] = "open",
                                                           !.cbThrows = c],
                                i, listenerCloses))
OnMessage ==
    /\ Running
    /\ \E i \in SocketIds :
        /\ sock[i] = "open"
        /\ Commit(onmessage(Begin("OnMessage", i)))
OnError ==
    /\ Running
    /\ \E i \in SocketIds :
        /\ sock[i] \in {"connecting", "open", "closing"}
        /\ Commit(onerror(Begin("OnError", i)))
OnClose ==
    /\ Running
    /\ \E i \in SocketIds :
        /\ sock[i] \in {"connecting", "open", "closing"}
        /\ Commit(onclose([Begin("OnClose", i) EXCEPT !.sock[i] = "closed"]))

\* Timers.
ConnectTimeout ==
    /\ Running
    /\ \E i \in connTimers :
        Commit(connectTimeout([Begin("ConnectTimeout", i) EXCEPT !.connTimers = @ \ {i}]))
ReconnectTimer ==
    /\ Running /\ CanConnect
    /\ \E t \in timers :
        Commit(reconnectFire([Begin("ReconnectTimer", socket) EXCEPT !.timers = @ \ {t}]))
HeartbeatTick ==
    /\ Running
    /\ \E t \in intervals, fatal \in BOOLEAN :
        Commit(heartbeatTick(Begin("HeartbeatTick", socket), fatal))
\* The clock advances between handlers.  Once the difference exceeds the
\* heartbeat timeout, more time changes nothing the code can read.
Tick ==
    /\ Running
    /\ lastPongTime # NoTime
    /\ now - lastPongTime <= cfg.heartbeatTimeout
    /\ Commit([Begin("Tick", socket) EXCEPT !.now = @ + 1])

Next ==
    \/ Connect \/ Close \/ Send \/ ResetReconnectAttempts
    \/ OnOpen \/ OnMessage \/ OnError \/ OnClose
    \/ ConnectTimeout \/ ReconnectTimer \/ HeartbeatTick \/ Tick

Spec == Init /\ [][Next]_vars

\* ------------------------------------------------- state getters (37-51)
isOpen == readyState = OPEN
isClosed == socket = Null \/ readyState = CLOSED
isClosing == socket = Null \/ readyState = CLOSING
isConnecting == readyState = CONNECTING

\* ================================================================ claims
NotOpen == socket = Null \/ readyState # OPEN
Live == {i \in SocketIds : sock[i] \in {"connecting", "open"}}
WireData(wr) == [k \in 1..Len(wr) |-> wr[k].data]

\* C1: whenever no handler is running, the client holds a socket handle if
\* and only if its state is CONNECTING, OPEN or CLOSING.
C1_HandleIffLiveState ==
    Running => ((socket # Null) <=> (readyState \in {CONNECTING, OPEN, CLOSING}))

\* C2: the client owns at most one live underlying socket: no socket is
\* constructed while an earlier one is neither closed by the client nor
\* reported closed by the transport.
C2_AtMostOneLiveSocket == Cardinality(Live) <= 1

\* C3: after close() returns, in whatever state it was called, no reconnect
\* timer is pending and no heartbeat timer is armed.
C3_CloseCancelsTimers ==
    Trigger.op = "Close" => (timers = {} /\ intervals = {})

\* C4: once close() has acted on a handle and the caller has not called
\* connect() again, no 'reconnecting' event is emitted, no reconnect timer is
\* pending, the reconnection intent stays cleared and no socket is constructed,
\* whenever the close event of the handle arrives and whatever the attempt
\* counter holds.
C4_ExplicitCloseNeverReconnects ==
    explicitClosed =>
        /\ timers = {}
        /\ ~shouldReconnect
        /\ ~HasEv(events, "reconnecting")
        /\ ~HasOp(ops, "scheduleReconnect")
        /\ ~HasOp(ops, "connect")

\* C4 witness: the close event of a handle arrives after close() has acted,
\* with reconnect attempts already counted.
C4_Witness ==
    /\ explicitClosed
    /\ Trigger.op = "OnClose"
    /\ HasEv(events, "close")
    /\ reconnectAttempts > 0

\* C5: close() called while CONNECTING cancels the connect-timeout timer of
\* the handle it closes.
C5_CloseCancelsConnectTimeout ==
    (Trigger.op = "Close" /\ Trigger.state = CONNECTING /\ Trigger.sock # Null)
        => Trigger.sock \notin connTimers

\* C6: a connect-timeout timer never acts on a superseded handle: when the
\* timer armed for one attempt fires, the only handle it may close is the one
\* of that attempt.
C6_TimeoutOnlyClosesOwnAttempt ==
    Trigger.op = "ConnectTimeout" =>
        \A k \in 1..Len(ops) : ops[k].op = "close" => ops[k].sock = Trigger.sock

\* C7: when 'reconnect-failed' is emitted the automatic reconnection has
\* stopped: no reconnect timer is pending.
C7_NoTimerAfterReconnectFailed ==
    HasEv(events, "reconnect-failed") => timers = {}

\* C8: the queue never exceeds maxQueueSize; a send() while not OPEN with
\* queuing enabled and the queue full returns false, calls back with an error
\* and leaves the queue as it was; below the maximum it appends exactly one
\* entry at the tail and returns true.
C8_QueueBounded ==
    /\ [](Len(messageQueue) <= cfg.maxQueueSize)
    /\ [][(Trigger'.op = "Send" /\ NotOpen /\ cfg.queueMessages) =>
            IF Len(messageQueue) >= cfg.maxQueueSize
            THEN /\ ret' = "false"
                 /\ Len(cbs') = 1 /\ cbs'[1][2] = "not open"
                 /\ messageQueue' = messageQueue
            ELSE /\ ret' = "true"
                 /\ cbs' = <<>>
                 /\ Len(messageQueue') = Len(messageQueue) + 1
                 /\ SubSeq(messageQueue', 1, Len(messageQueue)) = messageQueue]_vars

\* C8 witness: a send() refused because the queue holds maxQueueSize entries.
C8_Witness ==
    /\ Trigger.op = "Send"
    /\ cfg.queueMessages
    /\ ret = "false"
    /\ Len(messageQueue) = cfg.maxQueueSize
    /\ NotOpen

\* C9: whenever the client turns OPEN with a non-empty queue, the open
\* handling returns with the queue empty, every queued payload having been
\* handed to the underlying send() in the order it was enqueued.
C9_DrainFullyFifo ==
    [][(Trigger'.op = "OnOpen" /\ messageQueue # <<>>
            /\ (readyState' = OPEN \/ halted' = "loop")) =>
        /\ halted' = "no"
        /\ messageQueue' = <<>>
        /\ WireData(wire') = messageQueue]_vars

\* C10: 'heartbeat-timeout' is emitted at most once for one violation, that
\* is between two liveness resets (heartbeat start, message, close event).
C10_HeartbeatTimeoutOnce == hbCount <= 1

\* ------------------------------------------------- the reconnect cycle alone
\* The delays of the claim's example, for attempts 1..10 (reconnectDelay 1000,
\* maxReconnectDelay 30000).
BackoffTable ==
    <<1000, 2000, 4000, 8000, 16000, 30000, 30000, 30000, 30000, 30000>>

\* A client whose connection attempt is in flight after n failed attempts in
\* a row, configured with room for Len(BackoffTable) attempts; the sockets of
\* the earlier attempts are closed and forgotten.
InitBackoff ==
    /\ cfg \in {c \in [queueMessages : BOOLEAN,
                       connectTimeoutMs : {0, 1},
                       heartbeatInterval : {0, 1},
                       heartbeatTimeout : {1},
                       maxReconnectAttempts : {Len(BackoffTable)},
                       maxQueueSize : {MaxQueueSize}] :
                  (c.connectTimeoutMs = 0) = (c.heartbeatInterval = 0)}
    /\ socket = 1
    /\ readyState = CONNECTING
    /\ reconnectAttempts \in 0..(Len(BackoffTable) - 1)
    /\ reconnectTimer = Null
    /\ shouldReconnect = TRUE
    /\ messageQueue = <<>>
    /\ pingInterval = Null
    /\ lastPongTime = NoTime
    /\ sock = [i \in SocketIds |-> IF i = 1 THEN "connecting" ELSE "none"]
    /\ nsock = 1
    /\ connTimers = IF cfg.connectTimeoutMs # 0 THEN {1} ELSE {}
    /\ timers = {}
    /\ intervals = {}
    /\ now = 0
    /\ halted = "no"
    /\ events = <<>>
    /\ ops = <<>>
    /\ wire = <<>>
    /\ cbs = <<>>
    /\ ret = "none"
    /\ explicitClosed = FALSE
    /\ hbCount = 0

\* Attempts fail and the reconnect timer starts the next one.
NextBackoff == OnClose \/ ReconnectTimer

SpecBackoff == InitBackoff /\ [][NextBackoff]_vars

\* C11: the 'reconnecting' event of the n-th consecutive attempt carries n,
\* the counter already incremented, and the delay
\* min(reconnectDelay * 2^(n-1), maxReconnectDelay), which for n = 1..10 is
\* 1000, 2000, 4000, 8000, 16000, 30000, ...; the timer is armed with it.
C11_BackoffDelay ==
    HasOp(ops, "scheduleReconnect") =>
        /\ CountEv(events, "reconnecting") = 1
        /\ \A k \in 1..Len(events) : events[k].type = "reconnecting" =>
            /\ events[k].a = reconnectAttempts
            /\ events[k].a >= 1
            /\ events[k].b = Min(reconnectDelay * Pow2(events[k].a - 1),
                                 maxReconnectDelay)
            /\ events[k].a <= Len(BackoffTable)
                   => events[k].b = BackoffTable[events[k].a]
        /\ timers = {reconnectTimer}

\* C11 witness: the tenth attempt in a row is announced, with the capped delay.
C11_Witness ==
    /\ HasOp(ops, "scheduleReconnect")
    /\ \E k \in 1..Len(events) :
        events[k] = Ev("reconnecting", Len(BackoffTable), maxReconnectDelay)

\* The fields of the client and its timers, without the outputs of a handler.
clientState ==
    <<socket, readyState, reconnectAttempts, reconnectTimer, shouldReconnect,
      messageQueue, pingInterval, lastPongTime, connTimers, timers, intervals>>

\* C12: with queueMessages false, a send() while CLOSED returns false, invokes
\* the callback exactly once with the 'not open' error, reaches no socket,
\* emits nothing and leaves the queue and every other field of the client as
\* they were.
C12_SendWhileClosedRejected ==
    [][(Trigger'.op = "Send" /\ ~cfg.queueMessages /\ readyState = CLOSED) =>
        /\ ret' = "false"
        /\ Len(cbs') = 1 /\ cbs'[1][2] = "not open"
        /\ wire' = <<>> /\ events' = <<>>
        /\ clientState' = clientState
        /\ sock' = sock]_vars

\* C12 witness: such a send() was rejected after the connection had closed.
C12_Witness ==
    /\ Trigger.op = "Send" /\ ~cfg.queueMessages /\ readyState = CLOSED
    /\ ret = "false" /\ nsock > 0 /\ messageQueue = <<>>

\* C13: in every reachable state exactly one of isConnecting, isOpen,
\* isClosing and isClosed is true, the one of the state the client is in; in
\* the initial state and after close() that is isClosed and not isClosing.
C13_ExactlyOnePredicate ==
    /\ isConnecting <=> readyState = CONNECTING
    /\ isOpen <=> readyState = OPEN
    /\ isClosing <=> readyState = CLOSING
    /\ isClosed <=> readyState = CLOSED
    /\ Cardinality({k \in 1..4 :
           <<isConnecting, isOpen, isClosing, isClosed>>[k]}) = 1

\* C14: the heartbeat is armed only in state OPEN, a reconnect timer is
\* pending only in state CLOSED with shouldReconnect true, and the two are
\* never active together.
C14_TimersMatchState ==
    /\ intervals # {} => readyState = OPEN
    /\ timers # {} => (readyState = CLOSED /\ shouldReconnect)
    /\ ~(intervals # {} /\ timers # {})

\* The steps of open handling, in the order the claim gives them.
IsOpenStep(o) ==
    o.op \in {"clearTimeout", "emit open", "flushMessageQueue", "startHeartbeat"}
OpenSteps == SelectSeq(ops, IsOpenStep)
OpenOrder ==
    (IF cfg.connectTimeoutMs # 0 THEN <<"clearTimeout">> ELSE <<>>)
    \o <<"emit open", "flushMessageQueue">>
    \o (IF cfg.heartbeatInterval # 0 /\ halted = "no"
        THEN <<"startHeartbeat">> ELSE <<>>)

SendFailureReported ==
    (Trigger'.op = "Send" /\ wire' # <<>> /\ wire'[1].thrown) =>
        /\ Len(cbs') = 1 /\ cbs'[1][2] = "error"
        /\ ret' = "false"
        /\ messageQueue' = messageQueue

\* C16, second part: a drain that reaches the socket submits every queued
\* entry once, in order, whether or not a submission throws, and leaves
\* nothing queued.
DrainSurvivesFailure ==
    (Trigger'.op = "OnOpen" /\ halted' = "no" /\ wire' # <<>>) =>
        /\ WireData(wire') = messageQueue
        /\ messageQueue' = <<>>

\* C16, third part: no entry's callback is invoked more than once.
CallbackAtMostOnce ==
    /\ Trigger'.op = "Send" => Len(cbs') <= 1
    /\ Trigger'.op = "OnOpen" => Len(cbs') <= Len(messageQueue)

\* C16: a synchronous failure of the underlying send is reported to the
\* callback once, with false returned and nothing queued; in a drain the
\* failed entry is dropped and the later ones are still submitted in order;
\* every callback is invoked at most once.
C16_SendFailureHandling ==
    [][SendFailureReported /\ DrainSurvivesFailure /\ CallbackAtMostOnce]_vars

\* C17: at most one reconnect timer is pending at any time, the one the
\* client has recorded.
C17_OneReconnectTimer ==
    /\ Cardinality(timers) <= 1
    /\ timers \subseteq {reconnectTimer}

\* C17 witness: the close events of two sockets each scheduled a reconnect,
\* and the timer of the first had not fired when the second was armed.
C17_Witness ==
    /\ Trigger.op = "OnClose" /\ HasOp(ops, "scheduleReconnect")
    /\ nsock = 2 /\ reconnectAttempts = 2 /\ timers # {}

\* C18: every drain of the queue terminates.
C18_DrainTerminates == halted # "loop"

\* C19: the attempt counter stays between 0 and maxReconnectAttempts; only a
\* scheduled reconnect raises it, by one and from below the maximum; an open
\* event and resetReconnectAttempts() set it to 0.
C19_AttemptsBounded ==
    /\ [](reconnectAttempts \in 0..cfg.maxReconnectAttempts)
    /\ [][/\ reconnectAttempts' > reconnectAttempts =>
               /\ HasOp(ops', "scheduleReconnect")
               /\ reconnectAttempts' = reconnectAttempts + 1
               /\ reconnectAttempts < cfg.maxReconnectAttempts
          /\ Trigger'.op \in {"OnOpen", "ResetReconnectAttempts"} =>
               reconnectAttempts' = 0]_vars

\* C19 witness: the counter has reached the maximum and the next close
\* event gave up.
C19_Witness ==
    /\ reconnectAttempts = cfg.maxReconnectAttempts
    /\ HasEv(events, "reconnect-failed")

\* C20: a connect timeout that fires in state CONNECTING closes the
\* connection as close() does (state CLOSED, no handle, shouldReconnect
\* false, no reconnect timer) and then emits exactly one 'error'; fired in
\* any other state it does nothing.
C20_ConnectTimeoutCloses ==
    [][Trigger'.op = "ConnectTimeout" =>
        IF readyState = CONNECTING
        THEN /\ HasOp(ops', "close")
             /\ readyState' = CLOSED /\ socket' = Null
             /\ ~shouldReconnect' /\ timers' = {} /\ explicitClosed'
             /\ events' = <<Ev("error", 1, 0)>>
        ELSE /\ events' = <<>>
             /\ <<socket, readyState, reconnectAttempts, reconnectTimer,
                  shouldReconnect, messageQueue, pingInterval, lastPongTime,
                  timers, intervals, sock>>' =
                <<socket, readyState, reconnectAttempts, reconnectTimer,
                  shouldReconnect, messageQueue, pingInterval, lastPongTime,
                  timers, intervals, sock>>]_vars

\* C20 witness: the timeout fired during an attempt started by the reconnect
\* timer and closed it.
C20_Witness ==
    /\ Trigger.op = "ConnectTimeout" /\ Trigger.state = CONNECTING
    /\ HasEv(events, "error") /\ readyState = CLOSED /\ nsock >= 2

====
